---- MODULE Spec2Model ----
(***************************************************************************)
(* Model of src/Inicio.py: the gas-sensor dashboard's pipeline from an     *)
(* uploaded CSV to the canonical series `variable`, its metrics and state, *)
(* the rolling mean, the range filters and the filtered export.            *)
(*                                                                         *)
(* One run of the script is a chain of steps, each a block of the file:    *)
(*   ReadCsv (76) -> RenameColumn (80-86) -> ProcessTime (89-97)           *)
(*   -> CoerceNumeric (100-103) -> ComputeMetrics (106-119)                *)
(*   -> Tab1 (124-172) -> Tab3 (198-252).                                  *)
(* An exception in any step ends the run in the handler of line 283;       *)
(* st.stop() (103) ends it without running anything further.  tab2         *)
(* (174-196) and tab4 (264-281) only render values computed before them    *)
(* and have no step of their own; the standard deviation is left out.      *)
(*                                                                         *)
(* Floats are modelled by integers plus the marker NaN; a mean is kept as  *)
(* the pair (sum, number of observations).  Timestamps are integers plus   *)
(* the marker NaT.                                                         *)
(***************************************************************************)
EXTENDS Integers, Sequences, FiniteSets, TLC

VARIABLES
    pc,                 \* position of the run in the script
    file,               \* the uploaded table as read_csv parses it
    df1,                \* the DataFrame df1
    origin,             \* per row of df1: its row number in the upload
    warned,             \* st.warning of line 93 was shown
    critical_threshold, \* sidebar, line 50
    warning_threshold,  \* sidebar, line 51
    rolling_window,     \* sidebar, line 52
    last_time,          \* line 106
    last_value,         \* line 107
    mean_value,         \* line 108
    status,             \* lines 112-119
    rolling,            \* line 138
    tab3                \* what tab3 computed and showed (lines 198-252)

vars == <<pc, file, df1, origin, warned, critical_threshold, warning_threshold,
          rolling_window, last_time, last_value, mean_value, status, rolling, tab3>>

----------------------------------------------------------------------------
(* Bounds *)

MaxRows == 3        \* rows of an uploaded series
MaxLayoutRows == 1  \* rows of an upload that tries a column layout
MaxWindow == 4      \* rolling windows 1..MaxWindow
MaxLevel == 4       \* thresholds 0..MaxLevel

(* Markers *)

NaN == -1
NaT == -2
None == -3

Values == {1, 2, 3}
Times == {1, 2}

----------------------------------------------------------------------------
(* Raw cells of the upload: a numeric text, a date text, or any other text *)

NumCell(n) == [kind |-> "num", v |-> n]
DateCell(t) == [kind |-> "date", v |-> t]
TextCell == [kind |-> "text", v |-> 0]

\* pd.to_numeric(..., errors='coerce') on one entry
ToNumeric(c) == IF c.kind = "num" THEN c.v ELSE NaN

\* pd.to_datetime(..., errors='coerce') on one entry
ToDatetime(c) == IF c.kind = "date" THEN c.v ELSE NaT

\* IEEE comparisons: every comparison with NaN is false
Ge(a, b) == a # NaN /\ b # NaN /\ a >= b
Gt(a, b) == a # NaN /\ b # NaN /\ a > b
Lt(a, b) == a # NaN /\ b # NaN /\ a < b

----------------------------------------------------------------------------
(* Sequence helpers *)

Range(s) == {s[i] : i \in DOMAIN s}

Contains(s, x) == \E i \in DOMAIN s : s[i] = x

PositionOf(s, x) == CHOOSE i \in DOMAIN s : s[i] = x

Count(s, x) == Cardinality({i \in DOMAIN s : s[i] = x})

RemoveAt(s, k) == [i \in 1..(Len(s) - 1) |-> IF i < k THEN s[i] ELSE s[i + 1]]

RECURSIVE SumSeq(_)
SumSeq(s) == IF s = <<>> THEN 0 ELSE Head(s) + SumSeq(Tail(s))

Valid(s) == SelectSeq(s, LAMBDA x : x # NaN)

SetMin(S) == CHOOSE x \in S : \A y \in S : x <= y
SetMax(S) == CHOOSE x \in S : \A y \in S : x >= y

\* All orders of the positions 1..n
Perms(n) == {p \in [1..n -> 1..n] : \A i, j \in 1..n : i # j => p[i] # p[j]}

----------------------------------------------------------------------------
(* Uploaded tables *)

\* Uploads that carry a series of up to MaxRows readings
SeriesHeaders == { <<"PPM">>, <<"Time", "Gas">>, <<"Gas", "Temp">> }

\* Uploads that try the other column layouts, on up to MaxLayoutRows rows
LayoutHeaders ==
    { <<>>, <<"Time">>, <<"PPM", "Time">>, <<"PPM", "variable">>,
      <<"Time", "PPM", "Temp">>, <<"Temp", "Time", "PPM">>,
      <<"Temp", "PPM", "Time">> }

Headers == SeriesHeaders \cup LayoutHeaders

TimeCells == {DateCell(t) : t \in Times} \cup {TextCell}
ValueCells == {NumCell(n) : n \in Values} \cup {TextCell}
GasCells == {NumCell(n) : n \in {1, 2}} \cup {TextCell}
ExtraCells == {NumCell(n) : n \in {1, 2}}

\* What the cells of a column of the upload may hold
CellsFor(name) ==
    IF name = "Time" THEN TimeCells
    ELSE IF name = "PPM" THEN ValueCells
    ELSE IF name = "Gas" THEN GasCells
    ELSE ExtraCells

RowsOf(h) == {r \in [1..Len(h) -> TimeCells \cup ValueCells] :
                 \A j \in 1..Len(h) : r[j] \in CellsFor(h[j])}

RowLimit(h) == IF h \in SeriesHeaders THEN MaxRows ELSE MaxLayoutRows

TablesOf(h) ==
    { [columns |-> h, rows |-> rs] :
        rs \in UNION {[1..n -> RowsOf(h)] : n \in 0..RowLimit(h)} }

Tables == UNION {TablesOf(h) : h \in Headers}

NoFrame == [columns |-> <<>>, rows |-> <<>>, index |-> <<>>, kind |-> "none"]

NoTab3 == [view |-> "none", min_val |-> None, max_val |-> None, combined |-> FALSE,
           filtrado_df_min |-> <<>>, filtrado_df_max |-> <<>>,
           filtrado_completo |-> <<>>, csv |-> <<>>]

NoMean == [sum |-> 0, n |-> 0]

----------------------------------------------------------------------------
(* DataFrame operations *)

\* df[name] as a list of entries (one column carries the name)
Column(df, name) ==
    LET j == PositionOf(df.columns, name)
    IN  [i \in 1..Len(df.rows) |-> df.rows[i][j]]

\* df.rename(columns={old: new})
Rename(df, old, new) ==
    [df EXCEPT !.columns = [j \in 1..Len(df.columns) |->
                               IF df.columns[j] = old THEN new ELSE df.columns[j]]]

\* pd.RangeIndex(start=0, stop=n, step=1)
RangeIndex(n) == [i \in 1..n |-> i - 1]

\* set_index without sort_index: the rows stay in the order of the upload
SortOrders_Unsorted(idx) == {[i \in 1..Len(idx) |-> i]}

\* The orders argsort may return for sort_index(): ascending, NaT last in the
\* order they had; an index that is already ascending is left as it is, and
\* the order of equal timestamps is otherwise not fixed (quicksort).
SortOrders(idx) ==
    LET n == Len(idx)
    IN  IF \A i \in 1..n : idx[i] # NaT /\ (i < n => idx[i] <= idx[i + 1])
        THEN {[i \in 1..n |-> i]}
        ELSE {p \in Perms(n) :
                \A i, j \in 1..n : i < j =>
                    \/ idx[p[i]] # NaT /\ idx[p[j]] # NaT /\ idx[p[i]] <= idx[p[j]]
                    \/ idx[p[i]] # NaT /\ idx[p[j]] = NaT
                    \/ idx[p[i]] = NaT /\ idx[p[j]] = NaT /\ p[i] < p[j]}

\* df.set_index('Time') followed by the rows taken in order p
SetIndexSorted(df, times, p) ==
    LET j == PositionOf(df.columns, "Time")
    IN  [columns |-> RemoveAt(df.columns, j),
         rows    |-> [i \in 1..Len(df.rows) |-> RemoveAt(df.rows[p[i]], j)],
         index   |-> [i \in 1..Len(df.rows) |-> times[p[i]]],
         kind    |-> "datetime"]

\* df['variable'] = pd.to_numeric(df['variable'], errors='coerce')
Coerce(df) ==
    LET j == PositionOf(df.columns, "variable")
    IN  [df EXCEPT !.rows = [i \in 1..Len(df.rows) |->
                                [df.rows[i] EXCEPT ![j] = ToNumeric(df.rows[i][j])]]]

\* Index.max(): NaT entries are skipped, NaT when nothing is left
IndexMax(idx) ==
    LET ts == {idx[i] : i \in DOMAIN idx} \ {NaT}
    IN  IF ts = {} THEN NaT ELSE SetMax(ts)

\* Series.mean(): over the valid entries, as (sum, count)
Mean(s) == [sum |-> SumSeq(Valid(s)), n |-> Len(Valid(s))]

\* Series.min() / Series.max(): NaN entries are skipped
SeriesMin(s) == IF Valid(s) = <<>> THEN NaN ELSE SetMin(Range(Valid(s)))
SeriesMax(s) == IF Valid(s) = <<>> THEN NaN ELSE SetMax(Range(Valid(s)))

----------------------------------------------------------------------------
(* Metrics *)

\* Status with the warning tier tested before the critical tier
Status_WarningFirst(value, warning, critical) ==
    IF Ge(value, warning) THEN "ADVERTENCIA"
    ELSE IF Ge(value, critical) THEN "CRITICO"
    ELSE "OK"

\* lines 112-119
Status(value, warning, critical) ==
    IF Ge(value, critical) THEN "CRITICO"
    ELSE IF Ge(value, warning) THEN "ADVERTENCIA"
    ELSE "OK"

\* line 107: df1['variable'].iloc[-1]
LastValue(s) == s[Len(s)]

\* line 106
LastTime(df) ==
    IF Contains(df.columns, "Time") \/ df.kind = "datetime"
    THEN IndexMax(df.index) ELSE None

\* Series.rolling(window=w, min_periods=1).mean(): the window sum and count
\* are carried from one row to the next, the entering row added and the
\* leaving row removed; fewer than min_periods observations give NaN.
RECURSIVE RollFrom(_, _, _, _, _)
RollFrom(s, w, i, sum, nobs) ==
    IF i > Len(s) THEN <<>>
    ELSE LET addS == IF s[i] # NaN THEN sum + s[i] ELSE sum
             addN == IF s[i] # NaN THEN nobs + 1 ELSE nobs
             out  == i - w
             newS == IF out >= 1 /\ s[out] # NaN THEN addS - s[out] ELSE addS
             newN == IF out >= 1 /\ s[out] # NaN THEN addN - 1 ELSE addN
         IN  <<[sum |-> newS, n |-> newN]>> \o RollFrom(s, w, i + 1, newS, newN)

\* The leaving row never removed: an expanding mean
RollingMean_Expanding(s, w) == RollFrom(s, Len(s) + 1, 1, 0, 0)

RollingMean(s, w) == RollFrom(s, w, 1, 0, 0)

----------------------------------------------------------------------------
(* Filters: a filtered frame is the list of the positions of df1 it keeps *)

\* The bound itself let through: >= for >
GreaterThan_Inclusive(s, bound) ==
    SelectSeq([i \in 1..Len(s) |-> i], LAMBDA i : Ge(s[i], bound))

\* df1[df1["variable"] > bound]
GreaterThan(s, bound) == SelectSeq([i \in 1..Len(s) |-> i], LAMBDA i : Gt(s[i], bound))

\* df1[df1["variable"] < bound]
LessThan(s, bound) == SelectSeq([i \in 1..Len(s) |-> i], LAMBDA i : Lt(s[i], bound))

\* df1[(df1["variable"] > lo) & (df1["variable"] < hi)]
Between(s, lo, hi) ==
    SelectSeq([i \in 1..Len(s) |-> i], LAMBDA i : Gt(s[i], lo) /\ Lt(s[i], hi))

\* DataFrame.drop_duplicates(): a row is dropped when an earlier row holds the
\* same values in every column; the index is not compared
RECURSIVE DropFrom(_, _, _)
DropFrom(df, ps, k) ==
    IF k > Len(ps) THEN <<>>
    ELSE (IF \E j \in 1..(k - 1) : df.rows[ps[j]] = df.rows[ps[k]]
          THEN <<>> ELSE <<ps[k]>>) \o DropFrom(df, ps, k + 1)

DropDuplicates(df, ps) == DropFrom(df, ps, 1)

\* DataFrame.to_csv(): one line per row, the index label and the row's values
ToCsv(df, ps) == [k \in 1..Len(ps) |-> [label |-> df.index[ps[k]], values |-> df.rows[ps[k]]]]

----------------------------------------------------------------------------
(* The run of the script *)

\* Sidebar values (lines 50-52) of the full run: the defaults, warning below
\* critical, on the scale of Values
Sidebar == {[critical |-> 3, warning |-> 2, window |-> 2]}

\* Sidebar values of the run up to tab1: every pair of thresholds at the
\* default window, and every window at the default thresholds
WideSidebar ==
    [critical : 0..MaxLevel, warning : 0..MaxLevel, window : {2}]
    \cup [critical : {3}, warning : {2}, window : 1..MaxWindow]

\* The canonical series: the column 'variable' of df1
Variable == Column(df1, "variable")

\* The script starts: the upload and the sidebar are read, nothing is computed
Start(tables, sidebar) ==
    /\ pc = "read_csv"
    /\ file \in tables
    /\ df1 = NoFrame
    /\ origin = <<>>
    /\ warned = FALSE
    /\ \E sb \in sidebar :
          /\ critical_threshold = sb.critical
          /\ warning_threshold = sb.warning
          /\ rolling_window = sb.window
    /\ last_time = None
    /\ last_value = None
    /\ mean_value = NoMean
    /\ status = "none"
    /\ rolling = <<>>
    /\ tab3 = NoTab3

Init == Start(Tables, Sidebar)

InitMetrics == Start(TablesOf(<<"PPM">>), WideSidebar)

\* line 76: pd.read_csv; a file without columns raises EmptyDataError
ReadCsv ==
    /\ pc = "read_csv"
    /\ IF file.columns = <<>>
       THEN /\ pc' = "error"
            /\ UNCHANGED <<df1, origin>>
       ELSE /\ pc' = "rename"
            /\ df1' = [columns |-> file.columns, rows |-> file.rows,
                       index |-> RangeIndex(Len(file.rows)), kind |-> "range"]
            /\ origin' = [i \in 1..Len(file.rows) |-> i]
    /\ UNCHANGED <<file, warned, critical_threshold, warning_threshold, rolling_window,
                   last_time, last_value, mean_value, status, rolling, tab3>>

\* The last column other than "Time" renamed, not the first
RenamedFrame_LastOther(df) ==
    IF Contains(df.columns, "Time")
    THEN LET other_columns == SelectSeq(df.columns, LAMBDA col : col # "Time")
         IN  IF Len(other_columns) > 0
             THEN Rename(df, other_columns[Len(other_columns)], "variable")
             ELSE df
    ELSE Rename(df, df.columns[Len(df.columns)], "variable")

\* lines 80-86
RenamedFrame(df) ==
    IF Contains(df.columns, "Time")
    THEN LET other_columns == SelectSeq(df.columns, LAMBDA col : col # "Time")
         IN  IF Len(other_columns) > 0
             THEN Rename(df, other_columns[1], "variable")
             ELSE df
    ELSE Rename(df, df.columns[1], "variable")

RenameColumn ==
    /\ pc = "rename"
    /\ df1' = RenamedFrame(df1)
    /\ pc' = "time"
    /\ UNCHANGED <<file, origin, warned, critical_threshold, warning_threshold,
                   rolling_window, last_time, last_value, mean_value, status, rolling, tab3>>

\* lines 89-97
ProcessTime ==
    /\ pc = "time"
    /\ IF Contains(df1.columns, "Time")
       THEN LET times == [i \in 1..Len(df1.rows) |-> ToDatetime(Column(df1, "Time")[i])]
            IN  /\ warned' = (\E i \in DOMAIN times : times[i] = NaT)
                /\ \E p \in SortOrders(times) :
                      /\ df1' = SetIndexSorted(df1, times, p)
                      /\ origin' = [i \in 1..Len(df1.rows) |-> origin[p[i]]]
       ELSE /\ df1' = [df1 EXCEPT !.index = RangeIndex(Len(df1.rows)), !.kind = "range"]
            /\ UNCHANGED <<origin, warned>>
    /\ pc' = "coerce"
    /\ UNCHANGED <<file, critical_threshold, warning_threshold, rolling_window,
                   last_time, last_value, mean_value, status, rolling, tab3>>

\* The stop taken as soon as one entry is invalid: any() for all()
AllInvalid_Any(s) == s = <<>> \/ \E i \in 1..Len(s) : s[i] = NaN

\* line 101: df1['variable'].isna().all()
AllInvalid(s) == \A i \in 1..Len(s) : s[i] = NaN

\* lines 100-103: df1['variable'] raises KeyError when no column has the name,
\* and is a frame, which to_numeric refuses, when two have it
CoerceNumeric ==
    /\ pc = "coerce"
    /\ IF Count(df1.columns, "variable") # 1
       THEN /\ pc' = "error"
            /\ UNCHANGED df1
       ELSE /\ df1' = Coerce(df1)
            /\ pc' = IF AllInvalid(Column(Coerce(df1), "variable"))
                     THEN "stopped" ELSE "metrics"
    /\ UNCHANGED <<file, origin, warned, critical_threshold, warning_threshold,
                   rolling_window, last_time, last_value, mean_value, status, rolling, tab3>>

\* lines 106-119
ComputeMetrics ==
    /\ pc = "metrics"
    /\ last_time' = LastTime(df1)
    /\ last_value' = LastValue(Variable)
    /\ mean_value' = Mean(Variable)
    /\ status' = Status(LastValue(Variable), warning_threshold, critical_threshold)
    /\ pc' = "tab1"
    /\ UNCHANGED <<file, df1, origin, warned, critical_threshold, warning_threshold,
                   rolling_window, rolling, tab3>>

\* lines 124-172
Tab1 ==
    /\ pc = "tab1"
    /\ rolling' = RollingMean(Variable, rolling_window)
    /\ pc' = "tab3"
    /\ UNCHANGED <<file, df1, origin, warned, critical_threshold, warning_threshold,
                   rolling_window, last_time, last_value, mean_value, status, tab3>>

\* The degenerate case never detected
IsDegenerate_Never(min_value, max_value) == FALSE

\* line 207
IsDegenerate(min_value, max_value) == min_value = max_value

\* lines 208-210: the series does not vary, the whole frame is shown
FullView == [NoTab3 EXCEPT !.view = "full"]

\* lines 212-246: the two panes, the combined filter or the union, the export
Filtered(df, min_val, max_val, combined) ==
    LET s == Column(df, "variable")
        filtrado_df_min == GreaterThan(s, min_val)
        filtrado_df_max == LessThan(s, max_val)
        filtrado_completo ==
            IF combined THEN Between(s, min_val, max_val)
            ELSE DropDuplicates(df, filtrado_df_min \o filtrado_df_max)
    IN  [view |-> "filters", min_val |-> min_val, max_val |-> max_val,
         combined |-> combined,
         filtrado_df_min |-> filtrado_df_min, filtrado_df_max |-> filtrado_df_max,
         filtrado_completo |-> filtrado_completo,
         csv |-> ToCsv(df, filtrado_completo)]

\* lines 198-252
Tab3 ==
    /\ pc = "tab3"
    /\ LET min_value == SeriesMin(Variable)
           max_value == SeriesMax(Variable)
       IN  IF IsDegenerate(min_value, max_value)
           THEN tab3' = FullView
           ELSE \E min_val \in min_value..max_value, max_val \in min_value..max_value,
                   combined \in BOOLEAN :
                    tab3' = Filtered(df1, min_val, max_val, combined)
    /\ pc' = "done"
    /\ UNCHANGED <<file, df1, origin, warned, critical_threshold, warning_threshold,
                   rolling_window, last_time, last_value, mean_value, status, rolling>>

Next ==
    \/ ReadCsv
    \/ RenameColumn
    \/ ProcessTime
    \/ CoerceNumeric
    \/ ComputeMetrics
    \/ Tab1
    \/ Tab3

Spec == Init /\ [][Next]_vars

\* The run up to tab1, over every sidebar setting
NextMetrics ==
    \/ ReadCsv
    \/ RenameColumn
    \/ ProcessTime
    \/ CoerceNumeric
    \/ ComputeMetrics
    \/ Tab1

SpecMetrics == InitMetrics /\ [][NextMetrics]_vars

----------------------------------------------------------------------------
(* Vocabulary of the properties, stated on the upload and on what is shown *)

Computed == pc \in {"tab1", "tab3", "done"}

Validated == pc \in {"metrics", "tab1", "tab3", "done"}

NothingProduced ==
    /\ last_time = None /\ last_value = None /\ mean_value = NoMean
    /\ status = "none" /\ rolling = <<>> /\ tab3 = NoTab3

HasTime == Contains(file.columns, "Time")

\* The column of the upload the selection rule names
SelectedColumn ==
    IF HasTime
    THEN SetMin({j \in DOMAIN file.columns : file.columns[j] # "Time"})
    ELSE 1

TimeColumn == PositionOf(file.columns, "Time")

IsNumber(c) == c.kind = "num"

NumberOf(c) == IF c.kind = "num" THEN c.v ELSE NaN

IsTimestamp(c) == c.kind = "date"

\* Position of the last valid entry of a series with one
LastValid(s) == SetMax({i \in DOMAIN s : s[i] # NaN})

Tier(value, warning, critical) ==
    IF value # NaN /\ value >= critical THEN "CRITICO"
    ELSE IF value # NaN /\ value >= warning THEN "ADVERTENCIA"
    ELSE "OK"

\* ps lists, in the order of the series, exactly the positions in S
ListsExactly(ps, S) ==
    /\ \A k \in 1..(Len(ps) - 1) : ps[k] < ps[k + 1]
    /\ Range(ps) = S

WindowOf(i, w) == (IF i - w + 1 > 1 THEN i - w + 1 ELSE 1)..i

RECURSIVE SumOf(_, _)
SumOf(s, S) ==
    IF S = {} THEN 0
    ELSE LET k == CHOOSE k \in S : TRUE IN s[k] + SumOf(s, S \ {k})

ValidIn(s, S) == {k \in S : s[k] # NaN}

----------------------------------------------------------------------------
(* C1: the state is CRITICO when the last reading is at or above the       *)
(* critical threshold, otherwise ADVERTENCIA when it is at or above the    *)
(* warning threshold, otherwise OK, for every pair of thresholds, also     *)
(* with the warning threshold above the critical one.                      *)
C1_StatusTiers ==
    Computed => status = Tier(last_value, warning_threshold, critical_threshold)

C1_Witness ==
    /\ Computed
    /\ warning_threshold > critical_threshold
    /\ last_value # NaN
    /\ last_value >= critical_threshold /\ last_value < warning_threshold
    /\ status = "CRITICO"

(* C2: with at least one valid reading, last_value is the last valid       *)
(* reading, never the invalid marker, and the state is derived from it.    *)
C2_LastValueIsLastValid ==
    Computed =>
        /\ last_value # NaN
        /\ last_value = Variable[LastValid(Variable)]
        /\ status = Tier(Variable[LastValid(Variable)],
                         warning_threshold, critical_threshold)

(* C3: without the combined filter, every row above the lower bound or     *)
(* below the upper bound is exported exactly once and no other row is;     *)
(* rows with equal values stay apart.                                      *)
C3_UnionKeepsEveryRow ==
    (tab3.view = "filters" /\ ~tab3.combined) =>
        /\ \A i \in 1..Len(Variable) :
              Count(tab3.filtrado_completo, i) =
                  (IF Gt(Variable[i], tab3.min_val) \/ Lt(Variable[i], tab3.max_val)
                   THEN 1 ELSE 0)
        /\ Len(tab3.csv) = Len(tab3.filtrado_completo)

(* C4: when no entry of the selected column is a number the run stops with *)
(* nothing computed or shown; when one is, the run is not stopped and goes *)
(* on to the metrics.                                                     *)
C4_NoNumericDataHalts ==
    /\ pc = "stopped" =>
          /\ \A i \in 1..Len(file.rows) : ~IsNumber(file.rows[i][SelectedColumn])
          /\ NothingProduced
    /\ Validated =>
          \E i \in 1..Len(file.rows) : IsNumber(file.rows[i][SelectedColumn])
    /\ pc \in {"read_csv", "rename", "time", "coerce", "metrics"} => NothingProduced

C4_Witness ==
    /\ pc = "stopped"
    /\ Len(file.rows) >= 2
    /\ HasTime

(* C5: when the smallest valid reading equals the largest, the whole frame *)
(* is shown and no filter and no export is made; otherwise the filters     *)
(* are made.                                                               *)
C5_DegenerateDisablesFilters ==
    /\ pc = "done" =>
          IF \A i, j \in 1..Len(Variable) :
                 (Variable[i] # NaN /\ Variable[j] # NaN) => Variable[i] = Variable[j]
          THEN tab3 = [NoTab3 EXCEPT !.view = "full"]
          ELSE tab3.view = "filters"
    /\ pc # "done" => tab3 = NoTab3

C5_Witness ==
    /\ pc = "done"
    /\ tab3.view = "full"
    /\ Len(df1.rows) >= 3
    /\ \E i \in 1..Len(Variable) : Variable[i] = NaN

(* C6: the canonical column is the first column of the upload other than   *)
(* "Time" when the upload has a "Time" column, and its first column        *)
(* otherwise; no other column is renamed, and without "Time" the index is  *)
(* 0..n-1.                                                                 *)
C6_ColumnSelection ==
    /\ (pc = "time" /\ \E j \in DOMAIN file.columns : file.columns[j] # "Time") =>
          \A j \in DOMAIN file.columns :
              df1.columns[j] = IF j = SelectedColumn THEN "variable" ELSE file.columns[j]
    /\ (Validated \/ pc = "stopped") =>
          /\ Len(Variable) = Len(file.rows)
          /\ \A i \in 1..Len(Variable) :
                Variable[i] = NumberOf(file.rows[origin[i]][SelectedColumn])
          /\ ~HasTime => df1.index = [i \in 1..Len(file.rows) |-> i - 1]

C6_Witness ==
    /\ pc = "done"
    /\ file.columns = <<"Temp", "Time", "PPM">>
    /\ Len(file.rows) = 1
    /\ file.rows[1][1] # file.rows[1][3]
    /\ Variable[1] = file.rows[1][1].v

(* C7 as stated: every rolling value is the mean of the valid readings of  *)
(* its window and the rolling series does not begin with NaN.              *)
C7_NoLeadingNaN ==
    pc = "tab3" =>
        /\ Len(rolling) = Len(Variable)
        /\ \A i \in 1..Len(Variable) :
              LET valid == ValidIn(Variable, WindowOf(i, rolling_window))
              IN  /\ rolling[i].n = Cardinality(valid)
                  /\ rolling[i].sum = SumOf(Variable, valid)
        /\ Len(rolling) > 0 => rolling[1].n > 0

(* C7: the rolling value at i is the mean of the valid readings among the  *)
(* rows max(first, i-W+1)..i, and is NaN exactly when that window holds no *)
(* valid reading; a short window occurs only at the start.                 *)
C7_RollingWindowMean ==
    pc = "tab3" =>
        /\ Len(rolling) = Len(Variable)
        /\ \A i \in 1..Len(Variable) :
              LET valid == ValidIn(Variable, WindowOf(i, rolling_window))
              IN  /\ rolling[i].n = Cardinality(valid)
                  /\ rolling[i].sum = SumOf(Variable, valid)
                  /\ (i >= rolling_window =>
                        Cardinality(WindowOf(i, rolling_window)) = rolling_window)

C7_Witness ==
    /\ pc = "tab3"
    /\ Len(Variable) = 3
    /\ rolling_window = 2
    /\ rolling[1].n = 0
    /\ rolling[2].n = 1
    /\ rolling[3].n = 2
    /\ Variable[2] # Variable[3]

(* C8: with a "Time" column every row of the upload is kept, once, with    *)
(* its parsed timestamp or the invalid-time marker; the warning is shown   *)
(* exactly when a timestamp could not be parsed; the rows with valid       *)
(* timestamps are in ascending order.                                      *)
C8_TimeIndex ==
    (HasTime /\ pc \notin {"read_csv", "rename", "time"}) =>
        /\ df1.kind = "datetime"
        /\ Len(df1.rows) = Len(file.rows)
        /\ Range(origin) = 1..Len(file.rows)
        /\ \A i \in 1..Len(df1.rows) :
              df1.index[i] = IF IsTimestamp(file.rows[origin[i]][TimeColumn])
                             THEN file.rows[origin[i]][TimeColumn].v ELSE NaT
        /\ warned = (\E i \in 1..Len(file.rows) : ~IsTimestamp(file.rows[i][TimeColumn]))
        /\ \A i, j \in 1..Len(df1.rows) :
              (i < j /\ df1.index[i] # NaT /\ df1.index[j] # NaT)
                  => df1.index[i] <= df1.index[j]

C8_Witness ==
    /\ pc = "done"
    /\ HasTime
    /\ warned
    /\ Len(df1.rows) = 3
    /\ origin # <<1, 2, 3>>
    /\ df1.index[1] < df1.index[2]

(* C9: greater_than keeps exactly the rows with a valid reading above the  *)
(* lower bound, less_than exactly those below the upper bound, and the     *)
(* combined filter exactly those strictly between, each in the order of    *)
(* the series.                                                             *)
C9_StrictFilters ==
    tab3.view = "filters" =>
        LET n == Len(Variable)
        IN  /\ ListsExactly(tab3.filtrado_df_min,
                   {i \in 1..n : Variable[i] # NaN /\ Variable[i] > tab3.min_val})
            /\ ListsExactly(tab3.filtrado_df_max,
                   {i \in 1..n : Variable[i] # NaN /\ Variable[i] < tab3.max_val})
            /\ tab3.combined =>
                  ListsExactly(tab3.filtrado_completo,
                      {i \in 1..n : /\ Variable[i] # NaN
                                    /\ Variable[i] > tab3.min_val
                                    /\ Variable[i] < tab3.max_val})

C9_Witness ==
    /\ tab3.view = "filters"
    /\ tab3.combined
    /\ tab3.filtrado_completo # <<>>
    /\ \E i \in 1..Len(Variable) : Variable[i] = tab3.min_val
    /\ \E i \in 1..Len(Variable) : Variable[i] = tab3.max_val

(* C10: on a time-indexed series last_time is the timestamp of the row     *)
(* whose reading is last_value; on an ordinal index there is no last_time. *)
C10_LastTimeOfLastValue ==
    Computed =>
        last_time = IF HasTime THEN df1.index[Len(df1.index)] ELSE None

====
